---- MODULE Spec2Model ----
(***************************************************************************)
(* Model of core/container.go: the content-addressed Container, its        *)
(* copy-on-write operations (from, withWorkdir, withVariable,              *)
(* withMountedDirectory, exec) and the metadata lookups (exitCode,         *)
(* stdout/stderr).                                                         *)
(*                                                                         *)
(* Text that the code inspects character by character (environment         *)
(* entries, variable names and values) is a sequence of one-character      *)
(* strings, so that strings.HasPrefix and strings.Cut are computed and not *)
(* assumed.  Other text (paths, addresses) is an ordinary string.          *)
(***************************************************************************)
EXTENDS Integers, Sequences, FiniteSets, TLC

VARIABLES cur, ret, chain

vars == <<cur, ret, chain>>

(***************************************************************************)
(* Bounds of the exploration.                                              *)
(***************************************************************************)
MaxSteps == 3
MaxMounts == 2

(***************************************************************************)
(* Program constants.                                                      *)
(***************************************************************************)
metaMount == "/dagger"
shimPath == "/_shim"
rootMount == "/"
platform == "linux/amd64"

(***************************************************************************)
(* Nil values of the Go pointers and the empty ContainerID.                *)
(***************************************************************************)
NilDef == [nil |-> "Definition"]
NilFile == [nil |-> "File"]
NilContainer == [nil |-> "Container"]
NilInt == [nil |-> "int"]
NilStr == [nil |-> "string"]
NilPayload == [nil |-> "containerIDPayload"]
NilState == [nil |-> "State"]
NoErr == [msg |-> "", at |-> ""]
Err(m, t) == [msg |-> m, at |-> t]
Ptr(v) == [val |-> v]
EmptyID == <<>>
MalformedID == [garbage |-> "not base64!"]

(***************************************************************************)
(* strings.HasPrefix, strings.Cut(_, "=") and fmt.Sprintf("%s=%s", ..) on  *)
(* sequences of characters.                                                *)
(***************************************************************************)
HasPrefix(s, p) == Len(s) >= Len(p) /\ SubSeq(s, 1, Len(p)) = p

IndexEq(s) ==
    IF \E i \in 1..Len(s) : s[i] = "="
    THEN CHOOSE i \in 1..Len(s) : s[i] = "=" /\ \A j \in 1..(i - 1) : s[j] # "="
    ELSE 0

Cut(s) ==
    IF IndexEq(s) = 0
    THEN [name |-> s, val |-> <<>>, ok |-> FALSE]
    ELSE [name |-> SubSeq(s, 1, IndexEq(s) - 1),
          val |-> SubSeq(s, IndexEq(s) + 1, Len(s)),
          ok |-> TRUE]

SprintfEq(name, value) == name \o <<"=">> \o value

(***************************************************************************)
(* specs.ImageConfig (the fields the container model uses) and the payload *)
(* of a ContainerID.                                                       *)
(***************************************************************************)
ZeroConfig == [Env |-> <<>>, WorkingDir |-> "", User |-> ""]

containerIDPayload(fs, cfg, mounts, meta) ==
    [FS |-> fs, Config |-> cfg, Mounts |-> mounts, Meta |-> meta]

ZeroPayload == containerIDPayload(NilDef, ZeroConfig, <<>>, NilDef)

ContainerMount(source, sourcePath, target) ==
    [Source |-> source, SourcePath |-> sourcePath, Target |-> target]

(***************************************************************************)
(* The codec.  encodeID is json.Marshal followed by base64; the model      *)
(* keeps the JSON object (a function from the keys that are written to     *)
(* their values) and lets it stand for its base64 text.  Keys tagged       *)
(* omitempty are left out when the field is empty and come back as the     *)
(* zero value on decoding.  A text that is not the encoding of an object   *)
(* does not decode; `fail` is "encode" when the payload cannot be          *)
(* serialised.                                                             *)
(***************************************************************************)
Get(obj, k, zero) == IF k \in DOMAIN obj THEN obj[k] ELSE zero

marshalConfig(cfg) ==
    LET keys == (IF cfg.Env = <<>> THEN {} ELSE {"Env"})
                \cup (IF cfg.WorkingDir = "" THEN {} ELSE {"WorkingDir"})
                \cup (IF cfg.User = "" THEN {} ELSE {"User"})
        val(k) == IF k = "Env" THEN cfg.Env
                  ELSE IF k = "WorkingDir" THEN cfg.WorkingDir
                  ELSE cfg.User
    IN [k \in keys |-> val(k)]

unmarshalConfig(obj) ==
    [Env |-> Get(obj, "Env", <<>>),
     WorkingDir |-> Get(obj, "WorkingDir", ""),
     User |-> Get(obj, "User", "")]

marshalMount(mnt) ==
    LET keys == {"source", "target"}
                \cup (IF mnt.SourcePath = "" THEN {} ELSE {"source_path"})
        val(k) == IF k = "source" THEN mnt.Source
                  ELSE IF k = "target" THEN mnt.Target
                  ELSE mnt.SourcePath
    IN [k \in keys |-> val(k)]

unmarshalMount(obj) ==
    ContainerMount(obj["source"], Get(obj, "source_path", ""), obj["target"])

encodeID(payload, fail) ==
    LET keys == {"fs", "cfg"}
                \cup (IF payload.Mounts = <<>> THEN {} ELSE {"mounts"})
                \cup (IF payload.Meta = NilDef THEN {} ELSE {"meta"})
        val(k) == IF k = "fs" THEN payload.FS
                  ELSE IF k = "cfg" THEN marshalConfig(payload.Config)
                  ELSE IF k = "mounts"
                       THEN [i \in 1..Len(payload.Mounts) |->
                                marshalMount(payload.Mounts[i])]
                  ELSE payload.Meta
    IN IF fail = "encode" THEN [id |-> EmptyID, err |-> Err("encode", "")]
       ELSE [id |-> [k \in keys |-> val(k)], err |-> NoErr]

WellFormed(id) == {"fs", "cfg"} \subseteq DOMAIN id

decodeID(id) ==
    IF ~WellFormed(id) THEN [payload |-> NilPayload, err |-> Err("decode", "")]
    ELSE LET ms == Get(id, "mounts", <<>>)
         IN [payload |-> containerIDPayload(
                             id["fs"],
                             unmarshalConfig(id["cfg"]),
                             [i \in 1..Len(ms) |-> unmarshalMount(ms[i])],
                             Get(id, "meta", NilDef)),
             err |-> NoErr]

decode(id) ==
    IF id = EmptyID THEN [payload |-> ZeroPayload, err |-> NoErr]
    ELSE LET r == decodeID(id)
         IN IF r.err # NoErr THEN [payload |-> NilPayload, err |-> r.err]
            ELSE [payload |-> r.payload, err |-> NoErr]

(* Variant of Encode that gives the zero payload the empty identity.      *)
EncodeZeroAsEmpty(payload, fail) ==
    LET r == encodeID(payload, fail)
    IN IF r.err # NoErr THEN [id |-> EmptyID, err |-> r.err]
       ELSE IF payload = ZeroPayload THEN [id |-> EmptyID, err |-> NoErr]
       ELSE [id |-> r.id, err |-> NoErr]

Encode(payload, fail) ==
    LET r == encodeID(payload, fail)
    IN IF r.err # NoErr THEN [id |-> EmptyID, err |-> r.err]
       ELSE [id |-> r.id, err |-> NoErr]

(***************************************************************************)
(* The build engine boundary: lazy states are terms, a definition is a     *)
(* marshalled state.  `failing` says that the engine rejects the           *)
(* definition it is asked to convert back.                                 *)
(***************************************************************************)
Scratch == [op |-> "scratch"]
Image(addr) == [op |-> "image", ref |-> addr]
Local(name) == [op |-> "local", name |-> name]

Marshal(st, plat) == [Def |-> st, Platform |-> plat]

defToState(def, failing) ==
    IF failing THEN [st |-> NilState, err |-> Err("def to state", "")]
    ELSE [st |-> def.Def, err |-> NoErr]

FSState(payload, fail) ==
    IF payload.FS = NilDef THEN [st |-> Scratch, err |-> NoErr]
    ELSE defToState(payload.FS, fail = "fs state")

MetaState(payload, fail) ==
    IF payload.Meta = NilDef THEN [st |-> NilState, err |-> NoErr]
    ELSE LET metaSt == defToState(payload.Meta, fail = "meta state")
         IN IF metaSt.err # NoErr THEN [st |-> NilState, err |-> metaSt.err]
            ELSE [st |-> metaSt.st, err |-> NoErr]

SourceState(mnt, failing) == defToState(mnt.Source, failing)

(***************************************************************************)
(* Inputs of the operations.                                               *)
(***************************************************************************)
ClientIDs == {EmptyID, MalformedID}
Names == {<<"A">>, <<"A", "=", "B">>}
Values == {<<"1">>, <<"2">>}
Paths == {"", "/app"}
Targets == {"/data", "/cache"}
DirectoryIDs == {"dir1", "dir2"}
Addresses == {"alpine", "Bad Ref"}
ArgLists == {<<"/bin/true">>}
ImageConfigs ==
    {[Env |-> << <<"A", "=", "0">> >>, WorkingDir |-> "", User |-> ""],
     [Env |-> << <<"A">> >>, WorkingDir |-> "/srv", User |-> "app"]}
NoOpts == [Stdin |-> NilStr, RedirectStdout |-> NilStr, RedirectStderr |-> NilStr]
ExecOpts ==
    {NoOpts,
     [Stdin |-> Ptr("input"), RedirectStdout |-> NilStr, RedirectStderr |-> NilStr],
     [Stdin |-> NilStr, RedirectStdout |-> Ptr("/out"), RedirectStderr |-> Ptr("/err")]}
FileContents == {<<"0">>, <<"x">>}

(***************************************************************************)
(* Every operation returns a (container, error) pair.                      *)
(***************************************************************************)
Ok(id) == [ctr |-> id, err |-> NoErr]
Fail(err) == [ctr |-> NilContainer, err |-> err]

(***************************************************************************)
(* Container.WithFS, Container.WithMountedDirectory,                       *)
(* Container.ImageConfig and Container.UpdateImageConfig.  `fail` names    *)
(* the collaborator call that fails, "" when none does.                    *)
(***************************************************************************)
(* Variant of WithFS that builds the new payload without the metadata.    *)
WithFSDropsMeta(id, st, plat, fail) ==
    LET d == decode(id)
        stDef == Marshal(st, plat)
        enc == Encode([d.payload EXCEPT !.FS = stDef, !.Meta = NilDef], fail)
    IN IF d.err # NoErr THEN Fail(d.err)
       ELSE IF fail = "marshal" THEN Fail(Err("marshal", ""))
       ELSE IF enc.err # NoErr THEN Fail(enc.err)
       ELSE Ok(enc.id)

WithFS(id, st, plat, fail) ==
    LET d == decode(id)
        stDef == Marshal(st, plat)
        enc == Encode([d.payload EXCEPT !.FS = stDef], fail)
    IN IF d.err # NoErr THEN Fail(d.err)
       ELSE IF fail = "marshal" THEN Fail(Err("marshal", ""))
       ELSE IF enc.err # NoErr THEN Fail(enc.err)
       ELSE Ok(enc.id)

DirectoryDecode(dir, failing) ==
    IF failing THEN [st |-> NilState, rel |-> "", err |-> Err("directory", "")]
    ELSE IF dir = "dir1" THEN [st |-> Local("d1"), rel |-> "", err |-> NoErr]
    ELSE [st |-> Local("d2"), rel |-> "sub", err |-> NoErr]

(* Variant of WithMountedDirectory that replaces the entries that already *)
(* have the target.                                                       *)
WithMountedDirectoryReplaces(id, target, source, fail) ==
    LET d == decode(id)
        dir == DirectoryDecode(source, fail = "directory")
        dirDef == Marshal(dir.st, "")
        kept == SelectSeq(d.payload.Mounts, LAMBDA m : m.Target # target)
        mounts == Append(kept, ContainerMount(dirDef, dir.rel, target))
        enc == Encode([d.payload EXCEPT !.Mounts = mounts], fail)
    IN IF d.err # NoErr THEN Fail(d.err)
       ELSE IF dir.err # NoErr THEN Fail(dir.err)
       ELSE IF fail = "marshal" THEN Fail(Err("marshal", ""))
       ELSE IF enc.err # NoErr THEN Fail(enc.err)
       ELSE Ok(enc.id)

WithMountedDirectory(id, target, source, fail) ==
    LET d == decode(id)
        dir == DirectoryDecode(source, fail = "directory")
        dirDef == Marshal(dir.st, "")
        mounts == Append(d.payload.Mounts, ContainerMount(dirDef, dir.rel, target))
        enc == Encode([d.payload EXCEPT !.Mounts = mounts], fail)
    IN IF d.err # NoErr THEN Fail(d.err)
       ELSE IF dir.err # NoErr THEN Fail(dir.err)
       ELSE IF fail = "marshal" THEN Fail(Err("marshal", ""))
       ELSE IF enc.err # NoErr THEN Fail(enc.err)
       ELSE Ok(enc.id)

ImageConfig(id) ==
    LET d == decode(id)
    IN IF d.err # NoErr THEN [cfg |-> ZeroConfig, err |-> d.err]
       ELSE [cfg |-> d.payload.Config, err |-> NoErr]

(***************************************************************************)
(* The configuration updates of withWorkdir, withVariable and from.  A     *)
(* closure passed to UpdateImageConfig is a record of the function it runs *)
(* and the variables it captures; Apply calls it.                          *)
(***************************************************************************)
withWorkdirFn(cfg, path) == [cfg EXCEPT !.WorkingDir = path]

withVariableFn(cfg, name, value) ==
    LET prefix == name \o <<"=">>
        newEnv == SelectSeq(cfg.Env, LAMBDA env : ~HasPrefix(env, prefix))
    IN [cfg EXCEPT !.Env = Append(newEnv, SprintfEq(name, value))]

(* Variant of the update of from that merges the environment of the      *)
(* container into the resolved configuration.                             *)
fromCfgFnMerges(cfg, imgCfg) == [imgCfg EXCEPT !.Env = cfg.Env \o imgCfg.Env]

fromCfgFn(cfg, imgCfg) == imgCfg

Apply(updateFn, cfg) ==
    IF updateFn.fn = "withWorkdir" THEN withWorkdirFn(cfg, updateFn.path)
    ELSE IF updateFn.fn = "withVariable"
         THEN withVariableFn(cfg, updateFn.name, updateFn.value)
    ELSE fromCfgFn(cfg, updateFn.imgCfg)

UpdateImageConfig(id, updateFn, fail) ==
    LET d == decode(id)
        enc == Encode([d.payload EXCEPT !.Config = Apply(updateFn, d.payload.Config)],
                      fail)
    IN IF d.err # NoErr THEN Fail(d.err)
       ELSE IF enc.err # NoErr THEN Fail(enc.err)
       ELSE Ok(enc.id)

withWorkdir(parent, path, fail) ==
    UpdateImageConfig(parent, [fn |-> "withWorkdir", path |-> path], fail)

withVariable(parent, name, value, fail) ==
    UpdateImageConfig(parent, [fn |-> "withVariable", name |-> name, value |-> value],
                      fail)

withMountedDirectory(parent, path, source, fail) ==
    WithMountedDirectory(parent, path, source, fail)

workdir(parent) ==
    LET c == ImageConfig(parent)
    IN IF c.err # NoErr THEN [val |-> "", err |-> c.err]
       ELSE [val |-> c.cfg.WorkingDir, err |-> NoErr]

variables(parent) ==
    LET c == ImageConfig(parent)
    IN IF c.err # NoErr THEN [val |-> <<>>, err |-> c.err]
       ELSE [val |-> c.cfg.Env, err |-> NoErr]

(***************************************************************************)
(* reference.ParseNormalizedNamed and reference.TagNameOnly on the         *)
(* addresses of the model.  In from, the failure "encode" is that of the   *)
(* Encode of WithFS and "update" that of the Encode of UpdateImageConfig.  *)
(***************************************************************************)
ParseNormalizedNamed(addr) ==
    IF addr = "alpine" THEN [name |-> "docker.io/library/alpine", ok |-> TRUE]
    ELSE [name |-> "", ok |-> FALSE]

from(parent, address, imgCfg, fail) ==
    IF ~ParseNormalizedNamed(address).ok THEN Fail(Err("invalid reference format", ""))
    ELSE IF fail = "resolve" THEN Fail(Err("resolve", ""))
    ELSE IF fail = "unmarshal" THEN Fail(Err("unmarshal", ""))
    ELSE LET withFS == WithFS(parent, Image(address), platform, fail)
         IN IF withFS.err # NoErr THEN Fail(withFS.err)
            ELSE UpdateImageConfig(withFS.ctr, [fn |-> "from", imgCfg |-> imgCfg],
                                   IF fail = "update" THEN "encode" ELSE "")

(***************************************************************************)
(* Container.Exec.  The run is described by the options the code gives to  *)
(* llb.State.Run, in the order it gives them; the mounts of the run are    *)
(* the root, then the AddMount options in order.  An output of the run is  *)
(* named by the position of its mount in that list.                        *)
(***************************************************************************)
RECURSIVE Join(_)
Join(args) ==
    IF Len(args) = 0 THEN <<>>
    ELSE IF Len(args) = 1 THEN <<args[1]>>
    ELSE <<args[1], " ">> \o Join(Tail(args))

shimBuild(plat, failing) ==
    IF failing THEN [st |-> NilState, err |-> Err("shim", "")]
    ELSE [st |-> [op |-> "shim", platform |-> plat], err |-> NoErr]

RunMount(target, st, sourcePath) ==
    [target |-> target, source |-> st, sourcePath |-> sourcePath]

EnvOpts(env) ==
    [i \in 1..Len(env) |-> [name |-> Cut(env[i]).name, val |-> Cut(env[i]).val]]

MountOpts(mounts) ==
    [i \in 1..Len(mounts) |->
        RunMount(mounts[i].Target, SourceState(mounts[i], FALSE).st,
                 mounts[i].SourcePath)]

Run(st, shimSt, args, cfg, mounts) ==
    [base |-> st,
     args |-> <<shimPath>> \o args,
     name |-> Join(args),
     dir |-> cfg.WorkingDir,
     env |-> EnvOpts(cfg.Env),
     mounts |-> <<RunMount(rootMount, st, ""),
                  RunMount(shimPath, shimSt, shimPath),
                  RunMount(metaMount, Scratch, "")>> \o MountOpts(mounts)]

Output(execSt, i) == [op |-> "exec", run |-> execSt, out |-> i]

Root(execSt) == Output(execSt, 1)

GetMount(execSt, target) ==
    Output(execSt, CHOOSE i \in 1..Len(execSt.mounts) :
                       /\ execSt.mounts[i].target = target
                       /\ \A j \in 1..(i - 1) : execSt.mounts[j].target # target)

(***************************************************************************)
(* The mount list of the decoded payload while the propagation loop runs:  *)
(* mounts and payload.Mounts share one backing array, so the sources of    *)
(* the first n entries are already replaced when the loop is at entry n+1. *)
(***************************************************************************)
Propagated(mounts, execSt, n) ==
    [i \in 1..Len(mounts) |->
        IF i <= n
        THEN [mounts[i] EXCEPT
                 !.Source = Marshal(GetMount(execSt, mounts[i].Target), platform)]
        ELSE mounts[i]]

(***************************************************************************)
(* The collaborator failures an exec of the container can meet: the stage  *)
(* and, for the two loops over the mounts, the entry.  FSState converts a  *)
(* definition only when the filesystem reference is not nil.               *)
(***************************************************************************)
NoFail == [stage |-> "", at |-> 0]

ExecFails(id) ==
    LET d == decode(id)
    IN IF d.err # NoErr THEN {NoFail}
       ELSE {[stage |-> s, at |-> 0] :
                s \in {"", "build shim", "marshal root", "get meta mount", "encode"}}
            \cup (IF d.payload.FS = NilDef THEN {}
                  ELSE {[stage |-> "fs state", at |-> 0]})
            \cup {[stage |-> s, at |-> k] :
                    s \in {"mount", "propagate"}, k \in 1..Len(d.payload.Mounts)}

(* Variant of the error return of Exec that also returns the container    *)
(* built from the payload as it is at that point.                         *)
execErrorWithContainer(m, t, local) ==
    [ctr |-> IF local = NilPayload THEN EmptyID ELSE Encode(local, "").id,
     err |-> Err(m, t), local |-> local]

execError(m, t, local) ==
    [ctr |-> NilContainer, err |-> Err(m, t), local |-> local]

Exec(id, args, opts, fail) ==
    LET d == decode(id)
        payload == d.payload
        cfg == payload.Config
        mounts == payload.Mounts
        shimSt == shimBuild(platform, fail.stage = "build shim")
        st == FSState(payload, fail.stage)
        execSt == Run(st.st, shimSt.st, args, cfg, mounts)
        execDef == Marshal(Root(execSt), platform)
        metaDef == Marshal(GetMount(execSt, metaMount), platform)
        all == Propagated(mounts, execSt, Len(mounts))
        final == containerIDPayload(execDef, cfg, all, metaDef)
        enc == Encode(final, fail.stage)
        Abort(m, t, local) == execError(m, t, local)
    IN IF d.err # NoErr THEN Abort("decode id", "", NilPayload)
       ELSE IF shimSt.err # NoErr THEN Abort("build shim", "", payload)
       ELSE IF fail.stage = "mount"
               /\ SourceState(mounts[fail.at], TRUE).err # NoErr
            THEN Abort("mount", mounts[fail.at].Target, payload)
       ELSE IF st.err # NoErr THEN Abort("fs state", "", payload)
       ELSE IF fail.stage = "marshal root" THEN Abort("marshal root", "", payload)
       ELSE IF fail.stage = "propagate"
            THEN Abort("propagate", mounts[fail.at].Target,
                       [payload EXCEPT
                           !.Mounts = Propagated(mounts, execSt, fail.at - 1)])
       ELSE IF fail.stage = "get meta mount"
            THEN Abort("get meta mount", "", [payload EXCEPT !.Mounts = all])
       ELSE IF enc.err # NoErr THEN Abort("encode", "", final)
       ELSE [ctr |-> enc.id, err |-> NoErr, local |-> final]

exec(parent, args, fail) == Exec(parent, args.Args, args.Opts, fail)

(***************************************************************************)
(* Container.MetaFile and Container.ExitCode.  `engine` is what the build  *)
(* engine holds for the looked-up file: whether it exists and its bytes.   *)
(***************************************************************************)
NewFile(st, path, failing) ==
    IF failing THEN [file |-> NilFile, err |-> Err("new file", path)]
    ELSE [file |-> [st |-> st, path |-> path], err |-> NoErr]

MetaFile(id, path, fail) ==
    LET d == decode(id)
        meta == MetaState(d.payload, fail)
    IN IF d.err # NoErr THEN [file |-> NilFile, err |-> d.err]
       ELSE IF meta.err # NoErr THEN [file |-> NilFile, err |-> meta.err]
       ELSE IF meta.st = NilState THEN [file |-> NilFile, err |-> NoErr]
       ELSE NewFile(meta.st, path, fail = "new file")

(***************************************************************************)
(* strconv.Atoi for a 64-bit int.  The value is kept as its sign and its   *)
(* decimal digits without leading zeros, so that no number of the model    *)
(* has to hold it.                                                         *)
(***************************************************************************)
Digit(c) ==
    CASE c = "0" -> 0 [] c = "1" -> 1 [] c = "2" -> 2 [] c = "3" -> 3
      [] c = "4" -> 4 [] c = "5" -> 5 [] c = "6" -> 6 [] c = "7" -> 7
      [] c = "8" -> 8 [] c = "9" -> 9 [] OTHER -> -1

IntMax ==
    <<"9", "2", "2", "3", "3", "7", "2", "0", "3", "6",
      "8", "5", "4", "7", "7", "5", "8", "0", "7">>

IntMinMagnitude == [IntMax EXCEPT ![Len(IntMax)] = "8"]

IntValue(neg, digits) == [neg |-> neg, digits |-> digits]

RECURSIVE StripZeros(_)
StripZeros(s) ==
    IF Len(s) > 1 /\ s[1] = "0" THEN StripZeros(Tail(s)) ELSE s

RECURSIVE DigitsLeq(_, _)
DigitsLeq(a, b) ==
    IF Len(a) = 0 THEN TRUE
    ELSE IF Digit(a[1]) < Digit(b[1]) THEN TRUE
    ELSE IF Digit(a[1]) > Digit(b[1]) THEN FALSE
    ELSE DigitsLeq(Tail(a), Tail(b))

Atoi(s) ==
    LET signed == Len(s) > 0 /\ s[1] \in {"+", "-"}
        neg == Len(s) > 0 /\ s[1] = "-"
        body == IF signed THEN Tail(s) ELSE s
        valid == Len(body) > 0 /\ \A i \in 1..Len(body) : Digit(body[i]) >= 0
        mag == StripZeros(body)
        limit == IF neg THEN IntMinMagnitude ELSE IntMax
        inRange == \/ Len(mag) < Len(limit)
                   \/ Len(mag) = Len(limit) /\ DigitsLeq(mag, limit)
    IN IF ~valid
       THEN [val |-> IntValue(FALSE, <<"0">>), err |-> Err("strconv.Atoi: invalid syntax", "")]
       ELSE IF ~inRange
       THEN [val |-> IntValue(neg, limit), err |-> Err("strconv.Atoi: value out of range", "")]
       ELSE [val |-> IntValue(neg /\ mag # <<"0">>, mag), err |-> NoErr]

FileRead(file, engine) ==
    IF file = NilFile
    THEN [data |-> <<>>, err |-> Err("panic: nil pointer dereference", "")]
    ELSE IF ~engine.exists THEN [data |-> <<>>, err |-> Err("no such file", file.path)]
    ELSE [data |-> engine.data, err |-> NoErr]

ExitCode(id, engine, fail) ==
    LET mf == MetaFile(id, "exitCode", fail)
        content == FileRead(mf.file, engine)
        exitCode == Atoi(content.data)
    IN IF mf.err # NoErr THEN [val |-> NilInt, err |-> mf.err, read |-> FALSE]
       ELSE IF mf.file # NilFile THEN [val |-> NilInt, err |-> NoErr, read |-> FALSE]
       ELSE IF content.err # NoErr THEN [val |-> NilInt, err |-> content.err, read |-> TRUE]
       ELSE IF exitCode.err # NoErr THEN [val |-> NilInt, err |-> exitCode.err, read |-> TRUE]
       ELSE [val |-> Ptr(exitCode.val), err |-> NoErr, read |-> TRUE]

exitCode(parent, engine, fail) == ExitCode(parent, engine, fail)

stdout(parent, fail) == MetaFile(parent, "stdout", fail)

stderr(parent, fail) == MetaFile(parent, "stderr", fail)

(***************************************************************************)
(* Container.FS behind the rootfs resolver, and Query.container.           *)
(***************************************************************************)
NilDirectory == [nil |-> "Directory"]

NewDirectory(st, rel, failing) ==
    IF failing THEN [dir |-> NilDirectory, err |-> Err("new directory", "")]
    ELSE [dir |-> [st |-> st, rel |-> rel], err |-> NoErr]

FS(id, fail) ==
    LET d == decode(id)
        st == FSState(d.payload, fail)
    IN IF d.err # NoErr THEN [dir |-> NilDirectory, err |-> d.err]
       ELSE IF st.err # NoErr THEN [dir |-> NilDirectory, err |-> st.err]
       ELSE NewDirectory(st.st, "", fail = "new directory")

rootfs(parent, fail) == FS(parent, fail)

container(id) == Ok(id)

(***************************************************************************)
(* State: cur is the identity of the container the client holds: the one   *)
(* it gave to container(id) before any transformation, then the result of  *)
(* every successful transformation; chain lists those; ret records the    *)
(* last resolver call: its arguments, the payload its parent decoded to    *)
(* when it was called (NilPayload when it does not decode), and what it    *)
(* returned.                                                               *)
(***************************************************************************)
NoValue == [nil |-> "value"]

Call(op, args, r, local, val, read) ==
    [op |-> op, parent |-> cur, pre |-> decode(cur).payload, args |-> args,
     ctr |-> r.ctr, err |-> r.err, local |-> local, val |-> val, read |-> read]

Returned(r) == IF r.err = NoErr THEN r.ctr ELSE cur

Advance(op, r) == IF r.err = NoErr THEN Append(chain, op) ELSE chain

nExec == Cardinality({i \in 1..Len(chain) : chain[i] = "exec"})

Engines ==
    {[exists |-> FALSE, data |-> <<>>]}
    \cup {[exists |-> TRUE, data |-> c] : c \in FileContents}

(***************************************************************************)
(* The inputs of each call: its arguments together with the collaborator   *)
(* failure it meets, if any.                                               *)
(***************************************************************************)
FromInputs ==
    {[Address |-> a, cfg |-> c, fail |-> ""] : a \in Addresses, c \in ImageConfigs}
    \cup {[Address |-> "alpine", cfg |-> ZeroConfig, fail |-> f] :
             f \in {"resolve", "unmarshal", "marshal", "encode", "update"}}

WorkdirInputs ==
    {[Path |-> p, fail |-> ""] : p \in Paths}
    \cup {[Path |-> "/app", fail |-> "encode"]}

VariableInputs ==
    {[Name |-> n, Value |-> v, fail |-> ""] : n \in Names, v \in Values}
    \cup {[Name |-> <<"A">>, Value |-> <<"1">>, fail |-> "encode"]}

MountInputs ==
    {[Path |-> "/data", Source |-> d, fail |-> ""] : d \in DirectoryIDs}
    \cup {[Path |-> t, Source |-> "dir1", fail |-> ""] : t \in Targets}
    \cup {[Path |-> "/data", Source |-> "dir1", fail |-> f] :
             f \in {"directory", "marshal", "encode"}}

ExecInputs(id) ==
    {[Args |-> a, Opts |-> o, fail |-> NoFail] : a \in ArgLists, o \in ExecOpts}
    \cup {[Args |-> a, Opts |-> NoOpts, fail |-> f] :
             a \in ArgLists, f \in ExecFails(id) \ {NoFail}}

ExitCodeInputs ==
    {[engine |-> e, fail |-> ""] : e \in Engines}
    \cup {[engine |-> [exists |-> TRUE, data |-> <<"0">>], fail |-> f] :
             f \in {"meta state", "new file"}}

MetaFileInputs ==
    {[which |-> w, fail |-> ""] : w \in {"stdout", "stderr"}}
    \cup {[which |-> "stdout", fail |-> f] : f \in {"meta state", "new file"}}

ReadInputs ==
    {[which |-> w, fail |-> ""] : w \in {"workdir", "variables", "rootfs"}}
    \cup {[which |-> "rootfs", fail |-> f] : f \in {"fs state", "new directory"}}

Init ==
    /\ cur = EmptyID
    /\ ret = [op |-> "container", parent |-> EmptyID, pre |-> ZeroPayload,
              args |-> [ID |-> EmptyID], ctr |-> EmptyID, err |-> NoErr,
              local |-> NoValue, val |-> NoValue, read |-> FALSE]
    /\ chain = <<>>

ContainerCall ==
    /\ chain = <<>>
    /\ \E id \in ClientIDs :
          LET r == container(id)
          IN /\ ret' = [op |-> "container", parent |-> id, pre |-> decode(id).payload,
                        args |-> [ID |-> id], ctr |-> r.ctr, err |-> r.err,
                        local |-> NoValue, val |-> NoValue, read |-> FALSE]
             /\ cur' = r.ctr
    /\ chain' = <<>>

From ==
    /\ Len(chain) < MaxSteps
    /\ \E in \in FromInputs :
          LET r == from(cur, in.Address, in.cfg, in.fail)
          IN /\ ret' = Call("from", in, r, NoValue, NoValue, FALSE)
             /\ cur' = Returned(r)
             /\ chain' = Advance("from", r)

WithWorkdir ==
    /\ Len(chain) < MaxSteps
    /\ \E in \in WorkdirInputs :
          LET r == withWorkdir(cur, in.Path, in.fail)
          IN /\ ret' = Call("withWorkdir", in, r, NoValue, NoValue, FALSE)
             /\ cur' = Returned(r)
             /\ chain' = Advance("withWorkdir", r)

WithVariable ==
    /\ Len(chain) < MaxSteps
    /\ \E in \in VariableInputs :
          LET r == withVariable(cur, in.Name, in.Value, in.fail)
          IN /\ ret' = Call("withVariable", in, r, NoValue, NoValue, FALSE)
             /\ cur' = Returned(r)
             /\ chain' = Advance("withVariable", r)

WithMountedDir ==
    /\ Len(chain) < MaxSteps
    /\ decode(cur).err = NoErr => Len(decode(cur).payload.Mounts) < MaxMounts
    /\ \E in \in MountInputs :
          LET r == withMountedDirectory(cur, in.Path, in.Source, in.fail)
          IN /\ ret' = Call("withMountedDirectory", in, r, NoValue, NoValue, FALSE)
             /\ cur' = Returned(r)
             /\ chain' = Advance("withMountedDirectory", r)

ExecCall ==
    /\ Len(chain) < MaxSteps
    /\ \E in \in ExecInputs(cur) :
          LET r == exec(cur, in, in.fail)
          IN /\ ret' = Call("exec", in, r, r.local, NoValue, FALSE)
             /\ cur' = Returned(r)
             /\ chain' = Advance("exec", r)

ExitCodeCall ==
    /\ \E in \in ExitCodeInputs :
          LET r == exitCode(cur, in.engine, in.fail)
          IN ret' = [op |-> "exitCode", parent |-> cur, pre |-> decode(cur).payload,
                     args |-> in, ctr |-> NilContainer, err |-> r.err,
                     local |-> NoValue, val |-> r.val, read |-> r.read]
    /\ UNCHANGED <<cur, chain>>

MetaFileCall ==
    /\ \E in \in MetaFileInputs :
          LET r == IF in.which = "stdout" THEN stdout(cur, in.fail)
                   ELSE stderr(cur, in.fail)
          IN ret' = [op |-> in.which, parent |-> cur, pre |-> decode(cur).payload,
                     args |-> in, ctr |-> NilContainer, err |-> r.err,
                     local |-> NoValue, val |-> r.file, read |-> FALSE]
    /\ UNCHANGED <<cur, chain>>

ReadCall ==
    /\ \E in \in ReadInputs :
          LET r == IF in.which = "workdir" THEN workdir(cur)
                   ELSE IF in.which = "variables" THEN variables(cur)
                   ELSE [val |-> rootfs(cur, in.fail).dir,
                         err |-> rootfs(cur, in.fail).err]
          IN ret' = [op |-> in.which, parent |-> cur, pre |-> decode(cur).payload,
                     args |-> in, ctr |-> NilContainer, err |-> r.err,
                     local |-> NoValue, val |-> Ptr(r.val), read |-> FALSE]
    /\ UNCHANGED <<cur, chain>>

Next ==
    \/ ContainerCall
    \/ From
    \/ WithWorkdir
    \/ WithVariable
    \/ WithMountedDir
    \/ ExecCall
    \/ ExitCodeCall
    \/ MetaFileCall
    \/ ReadCall

Spec == Init /\ [][Next]_vars

(***************************************************************************)
(* Properties.                                                             *)
(***************************************************************************)
Succeeded(op) == ret.op = op /\ ret.err = NoErr

Result == decode(ret.ctr).payload

Decoded == ret.pre # NilPayload

Held == decode(cur).payload

ExecState ==
    Run(FSState(ret.pre, "").st, shimBuild(platform, FALSE).st, ret.args.Args,
        ret.pre.Config, ret.pre.Mounts)

VarName(env) == Cut(env).name

IsInteger(data) == Atoi(data).err = NoErr

(* C1: when the metadata reference of the container is non-null and the    *)
(* exitCode file of its metadata state holds the base-10 integer n,        *)
(* exitCode returns n and no error.                                        *)
C1_ExitCodeReturnsValue ==
    (/\ ret.op = "exitCode"
     /\ Decoded
     /\ ret.pre.Meta # NilDef
     /\ ret.args.fail = ""
     /\ ret.args.engine.exists
     /\ IsInteger(ret.args.engine.data))
    => /\ ret.err = NoErr
       /\ ret.val = Ptr(Atoi(ret.args.engine.data).val)

(* C2: on a container that no exec has produced (null metadata reference)  *)
(* exitCode returns the absent result and no error, and does not try to    *)
(* read the content of any file.                                           *)
C2_ExitCodeAbsentBeforeExec ==
    (ret.op = "exitCode" /\ Decoded /\ ret.pre.Meta = NilDef)
    => /\ ret.err = NoErr
       /\ ret.val = NilInt
       /\ ~ret.read

(* C3: in a container reached from the empty identity by withVariable      *)
(* calls alone, no two environment entries have the same variable name,    *)
(* the name being the text before the first "=" (the whole entry when it   *)
(* has none), as exec reads it.                                            *)
C3_NoDuplicateNames ==
    LET env == Held.Config.Env
    IN (Held # NilPayload /\ \A k \in 1..Len(chain) : chain[k] = "withVariable")
       => \A i, j \in 1..Len(env) : VarName(env[i]) = VarName(env[j]) => i = j

(* C4: an exec that fails, at whatever step, returns an error and no       *)
(* container, and the identity it was called on still decodes to the       *)
(* payload it had before the call, also when the propagation loop had      *)
(* already replaced the sources of some mounts of its decoded copy.        *)
C4_ExecFailureIsolated ==
    (ret.op = "exec" /\ ret.err # NoErr)
    => /\ ret.ctr = NilContainer
       /\ cur = ret.parent
       /\ decode(ret.parent).payload = ret.pre

C4_Witness ==
    /\ ret.op = "exec"
    /\ ret.err.msg = "propagate"
    /\ ret.args.fail.at = 2
    /\ ret.local.Mounts[1].Source # ret.pre.Mounts[1].Source
    /\ Held.Mounts[1].Source = ret.pre.Mounts[1].Source

(* C5: a successful exec returns a mount list of the same length, each     *)
(* entry with the target and sub-path it had and with its source replaced  *)
(* by the post-execution state of its own mount of the run, also when two  *)
(* entries share a target.                                                 *)
C5_EachMountItsOwnState ==
    Succeeded("exec")
    => /\ Len(Result.Mounts) = Len(ret.pre.Mounts)
       /\ \A i \in 1..Len(ret.pre.Mounts) :
             /\ Result.Mounts[i].Target = ret.pre.Mounts[i].Target
             /\ Result.Mounts[i].SourcePath = ret.pre.Mounts[i].SourcePath
             /\ Result.Mounts[i].Source = Marshal(Output(ExecState, 3 + i), platform)

(* C6: an exec called with stdin, redirectStdout or redirectStderr set     *)
(* returns a "not implemented" error and no container.                     *)
C6_OptionsNotImplemented ==
    (ret.op = "exec" /\ Decoded /\ ret.args.Opts # NoOpts)
    => /\ ret.err.msg = "not implemented"
       /\ ret.ctr = NilContainer

(* C7: a successful from returns a container whose filesystem reference is *)
(* the root state of the image and whose configuration is exactly the      *)
(* resolved one; the mount list and the metadata reference are those of    *)
(* the container it was applied to.                                        *)
C7_FromReplacesConfig ==
    Succeeded("from")
    => /\ Result.FS = Marshal(Image(ret.args.Address), platform)
       /\ Result.Config = ret.args.cfg
       /\ Result.Mounts = ret.pre.Mounts
       /\ Result.Meta = ret.pre.Meta

C7_Witness ==
    /\ Succeeded("from")
    /\ ret.pre.Meta # NilDef
    /\ \E i \in 1..Len(ret.pre.Config.Env) :
          \A j \in 1..Len(ret.args.cfg.Env) : ret.args.cfg.Env[j] # ret.pre.Config.Env[i]
    /\ cur = ret.ctr

(* C8: a successful withMountedDirectory returns the mount list of its     *)
(* parent with one entry {source, sub-path, target} appended; the earlier  *)
(* entries keep their index and content, also when one of them has the     *)
(* same target, and the filesystem reference, the configuration and the    *)
(* metadata reference are unchanged.                                       *)
C8_MountAppended ==
    Succeeded("withMountedDirectory")
    => LET d == DirectoryDecode(ret.args.Source, FALSE)
       IN /\ Result.Mounts
               = Append(ret.pre.Mounts,
                        ContainerMount(Marshal(d.st, ""), d.rel, ret.args.Path))
          /\ Result.FS = ret.pre.FS
          /\ Result.Config = ret.pre.Config
          /\ Result.Meta = ret.pre.Meta

C8_Witness ==
    /\ Succeeded("withMountedDirectory")
    /\ Len(ret.pre.Mounts) = 1
    /\ ret.pre.Mounts[1].Target = ret.args.Path
    /\ Len(Held.Mounts) = 2

Transforming == {"from", "withWorkdir", "withVariable", "withMountedDirectory", "exec"}

(* C9 as stated: every successful transformation returns an identity that  *)
(* differs from the one it was applied to.                                 *)
C9_AlwaysNewIdentity ==
    (ret.op \in Transforming /\ ret.err = NoErr) => ret.ctr # ret.parent

(* C9 as amended: a successful withMountedDirectory or exec returns an     *)
(* identity that differs from the one it was applied to; a successful      *)
(* withWorkdir, withVariable or from returns the identity it was applied   *)
(* to exactly when that identity is not the empty one and the operation    *)
(* leaves the payload as it was.                                           *)
C9_NewIdentityIffChanged ==
    (ret.op \in Transforming /\ ret.err = NoErr)
    => /\ ret.op \in {"withMountedDirectory", "exec"} => ret.ctr # ret.parent
       /\ ret.ctr = ret.parent <=> (ret.parent # EmptyID /\ Result = ret.pre)

C9_Witness ==
    /\ Succeeded("withWorkdir")
    /\ ret.parent # EmptyID
    /\ ret.pre.Config.WorkingDir = ret.args.Path
    /\ ret.ctr = ret.parent

(* C10: in every container of a chain the metadata reference is non-null   *)
(* exactly when an exec succeeded earlier in the chain; a successful exec  *)
(* sets it to the post-execution state of the metadata mount of its own    *)
(* run, which starts from scratch, and every other successful operation    *)
(* leaves it as it was.                                                    *)
C10_MetaIffExec ==
    /\ Held # NilPayload => (Held.Meta # NilDef <=> nExec > 0)
    /\ Succeeded("exec")
       => /\ Result.Meta = Marshal(Output(ExecState, 3), platform)
          /\ ExecState.mounts[3] = RunMount(metaMount, Scratch, "")
    /\ (ret.op \in Transforming \ {"exec"} /\ ret.err = NoErr)
       => Result.Meta = ret.pre.Meta

C10_Witness ==
    /\ Succeeded("exec")
    /\ ret.pre.Meta # NilDef
    /\ Held.Meta # ret.pre.Meta
    /\ nExec = 2

====
